---------------------------- MODULE Spec2Model ----------------------------
(***************************************************************************)
(* ArcCell (src/lib.rs): a reference counted cell whose handle count and   *)
(* value pointer share one AtomicU128, (strong: u64, ptr: u64).            *)
(*                                                                         *)
(* Integers of the program are kept at their width: a u128 is a tuple of   *)
(* eight 16-bit limbs, least significant first; limbs 1..4 are the pointer *)
(* half and limbs 5..8 the strong half.  A u64 or u32 obtained by an `as`  *)
(* cast is the same tuple with its upper limbs cleared.                    *)
(*                                                                         *)
(* A Box allocation is identified by a number 1, 2, ...; every Box::new    *)
(* yields a fresh one, so that a freed payload stays recognisable.         *)
(***************************************************************************)
EXTENDS Integers, Sequences, FiniteSets, TLC

\* ------------------------------------------------------------- bounds
NumThreads == 2
MaxBoxes == 4
MaxGets == 1

Threads == 1..NumThreads
Boxes == 1..MaxBoxes

\* ------------------------------------------------------- u128 arithmetic
Radix == 256 * 256
Limbs == 1..8

Lit(n) == [i \in Limbs |-> IF i = 1 THEN n ELSE 0]
Zero == Lit(0)

RECURSIVE And16(_, _)
And16(a, b) ==
    IF a = 0 \/ b = 0 THEN 0
    ELSE (a % 2) * (b % 2) + 2 * And16(a \div 2, b \div 2)

BitAnd(x, y) == [i \in Limbs |-> And16(x[i], y[i])]
BitOr(x, y) == [i \in Limbs |-> x[i] + y[i] - And16(x[i], y[i])]
BitNot(x) == [i \in Limbs |-> Radix - 1 - x[i]]
Shl64(x) == [i \in Limbs |-> IF i <= 4 THEN 0 ELSE x[i - 4]]
Shr64(x) == [i \in Limbs |-> IF i <= 4 THEN x[i + 4] ELSE 0]

RECURSIVE Carry(_, _, _)
Carry(x, y, i) ==
    IF i = 1 THEN 0 ELSE (x[i - 1] + y[i - 1] + Carry(x, y, i - 1)) \div Radix

WrappingAdd(x, y) == [i \in Limbs |-> (x[i] + y[i] + Carry(x, y, i)) % Radix]

RECURSIVE Borrow(_, _, _)
Borrow(x, y, i) ==
    IF i = 1 THEN 0
    ELSE IF x[i - 1] - y[i - 1] - Borrow(x, y, i - 1) < 0 THEN 1 ELSE 0

WrappingSub(x, y) ==
    [i \in Limbs |-> (x[i] - y[i] - Borrow(x, y, i) + Radix) % Radix]

AsU64(x) == [i \in Limbs |-> IF i <= 4 THEN x[i] ELSE 0]
AsU32(x) == [i \in Limbs |-> IF i <= 2 THEN x[i] ELSE 0]

\* ------------------------------------------------- ArcCellInner constants
MASK_STRONG == [i \in Limbs |-> IF i <= 4 THEN 0 ELSE Radix - 1]
MASK_PTR == [i \in Limbs |-> IF i <= 4 THEN Radix - 1 ELSE 0]
ONE_STRONG == Shl64(Lit(1))

\* ----------------------------------------------------------- allocations
\* Box::into_raw(b) as u128: the address of allocation b (non-null, aligned).
PtrOf(b) == Lit(8 * b)
NullPtr == Zero
\* The allocation a raw pointer designates, 0 when it designates none.
BoxAt(p) == IF \E b \in Boxes : PtrOf(b) = p
            THEN CHOOSE b \in Boxes : PtrOf(b) = p
            ELSE 0

\* ---------------------------------------------- ArcCellInner, pure parts
\* fn strong_count: (load & MASK_STRONG >> 64) as u64; in Rust `>>` binds
\* tighter than `&`, so the mask is shifted, not the masked word.
strong_count(w) == AsU64(BitAnd(w, Shr64(MASK_STRONG)))

\* fn ptr: (load & MASK_PTR) as *const T
ptr_of(w) == AsU64(BitAnd(w, MASK_PTR))

\* Variant of ArcCellInner_new: the count of the first handle is left out.
ArcCellInner_new_no_count(p) == p

\* fn new: ONE_STRONG | (ptr as u128)
ArcCellInner_new(p) == BitOr(ONE_STRONG, p)

\* Variant of increment_strong: one is added to the low half.
increment_strong_low(w) == WrappingAdd(w, Lit(1))

\* Variant of increment_strong: the fetch_add is left out.
increment_strong_noop(w) == w

\* fn increment_strong: fetch_add(ONE_STRONG)
increment_strong(w) == WrappingAdd(w, ONE_STRONG)

\* Variant of decrement_strong_value: the count goes down by two.
decrement_strong_value_by_two(cur) ==
    WrappingSub(Shr64(BitAnd(cur, MASK_STRONG)), Lit(2))

\* fn decrement_strong: strong = (current & MASK_STRONG) >> 64; strong -= 1
decrement_strong_value(cur) == WrappingSub(Shr64(BitAnd(cur, MASK_STRONG)), Lit(1))

\* Variant of decrement_strong_new: the pointer half is not carried over.
decrement_strong_new_drops_ptr(cur) == Shl64(decrement_strong_value(cur))

\* fn decrement_strong: new = (current & !MASK_STRONG) | (strong << 64)
decrement_strong_new(cur) ==
    BitOr(BitAnd(cur, BitNot(MASK_STRONG)), Shl64(decrement_strong_value(cur)))

\* fn decrement_strong: return strong as u32
decrement_strong_ret(cur) == AsU32(decrement_strong_value(cur))

\* Variant of set_ptr_new: the old pointer bits are not masked out.
set_ptr_new_unmasked(cur, p) == BitOr(cur, p)

\* fn set_ptr: new = (current & !MASK_PTR) | ptr as u128
set_ptr_new(cur, p) == BitOr(BitAnd(cur, BitNot(MASK_PTR)), p)

\* fn set_ptr: return (value & MASK_PTR) as usize as *mut T
set_ptr_ret(value) == AsU64(BitAnd(value, MASK_PTR))

\* Variant of set_ptr_null_new: the count half is cleared, not the pointer.
set_ptr_null_new_wrong_mask(cur) == BitAnd(cur, BitNot(MASK_STRONG))

\* fn set_ptr_null: new = current & !MASK_PTR
set_ptr_null_new(cur) == BitAnd(cur, BitNot(MASK_PTR))

\* Variant of set_ptr_null_ptr: the wrong mask selects the pointer.
set_ptr_null_ptr_wrong_mask(value) == AsU64(BitAnd(value, MASK_STRONG))

\* fn set_ptr_null: ptr = (value & MASK_PTR) as *mut T
set_ptr_null_ptr(value) == AsU64(BitAnd(value, MASK_PTR))

\* Variant of compare_exchange_ok: the outcome is tested the wrong way round.
compare_exchange_inverted(w, cur) == w # cur

\* Variant of compare_exchange_ok: a plain store, the comparison left out.
compare_exchange_always(w, cur) == TRUE

\* compare_exchange(current, new, ..) succeeds iff the word still equals current
compare_exchange_ok(w, cur) == w = cur

\* Variant of drop_returns_early: the test is the other way round.
drop_returns_early_inverted(ret) == ret = Zero

\* Variant of drop_returns_early: `> 1` written for `> 0`.
drop_returns_early_above_one(ret) == ret # Zero /\ ret # Lit(1)

\* impl Drop for ArcCell: `if decrement_strong() > 0 { return; }`
drop_returns_early(ret) == ret # Zero

\* The full 64-bit handle count held in the strong half of a word.
StrongOf(w) == Shr64(BitAnd(w, MASK_STRONG))

\* ------------------------------------------------------------------ state
VARIABLES
    word,        \* the AtomicU128 of the one ArcCellInner
    innerLive,   \* the ArcCellInner allocation has not been freed
    heap,        \* per Box allocation: "unalloc", "live", "freed"
    pc,          \* per thread: where it is in the operation it runs
    handle,      \* per thread: its ArcCell handle: "none", "held", "dropped"
    guard,       \* per thread: its ArcRef from get: "none", "live", "released"
    current,     \* per thread: local `current` of a CAS loop
    data,        \* per thread: it holds the Box a set is installing
    old_ptr,     \* per thread: the pointer set_ptr returned
    ptr,         \* per thread: the pointer drop or deref obtained
    strong,      \* per thread: local `strong` of decrement_strong
    count,       \* per thread: the value strong_count() returned
    installs,    \* history: pointers installed, in the order of the word
    setRets,     \* history: pointers returned by set, in CAS order
    reclaimed,   \* history: pointers disposed by drop's reclamation
    innerFrees,  \* history: times the ArcCellInner was freed
    faults       \* history: undefined behaviour met so far

vars == <<word, innerLive, heap, pc, handle, guard, current, data, old_ptr,
          ptr, strong, count, installs, setRets, reclaimed, innerFrees,
          faults>>

locals == <<current, data, old_ptr, ptr, strong, count>>
history == <<installs, setRets, reclaimed, innerFrees>>

\* After undefined behaviour nothing is known of the program: every operation
\* is modelled up to the first fault only.
Running == faults = {}

\* A use of the ArcCellInner through self.inner() after it was freed.
Touch == IF innerLive THEN faults ELSE faults \cup {"inner_use_after_free"}

\* drop(Box::from_raw(p)): what freeing the payload at p does to the heap.
Dispose(p) ==
    IF BoxAt(p) # 0 /\ heap[BoxAt(p)] = "live"
    THEN [heap EXCEPT ![BoxAt(p)] = "freed"]
    ELSE heap

DisposeFault(p) ==
    IF p = NullPtr THEN {"null_free"}
    ELSE IF BoxAt(p) = 0 THEN {"wild_free"}
    ELSE IF heap[BoxAt(p)] = "freed" THEN {"double_free"}
    ELSE IF heap[BoxAt(p)] = "unalloc" THEN {"wild_free"}
    ELSE {}

\* `&*p` read by a caller of deref: what reading the payload at p meets.
ReadFault(p) ==
    IF p = NullPtr THEN {"null_deref"}
    ELSE IF BoxAt(p) = 0 THEN {"wild_deref"}
    ELSE IF heap[BoxAt(p)] # "live" THEN {"use_after_free"}
    ELSE {}

\* The next fresh allocation, 0 when the bound is used up.
FreshBox == IF \E b \in Boxes : heap[b] = "unalloc"
            THEN CHOOSE b \in Boxes : heap[b] = "unalloc" /\
                     \A c \in Boxes : heap[c] = "unalloc" => b <= c
            ELSE 0

\* The next thread that has not run yet, 0 when all have.
FreshThread == IF \E u \in Threads : handle[u] = "none"
               THEN CHOOSE u \in Threads : handle[u] = "none" /\
                        \A v \in Threads : handle[v] = "none" => u <= v
               ELSE 0

\* Boxes made so far: those that reached the word and those still private.
NumAllocated == Cardinality({b \in Boxes : heap[b] # "unalloc"})
                + Cardinality({t \in Threads : data[t]})

NumHandles == Cardinality({t \in Threads : handle[t] = "held"})
NumClones == Cardinality({t \in Threads : handle[t] # "none"}) - 1
NumGets == Cardinality({t \in Threads : guard[t] # "none"})
NumDrops == Cardinality({t \in Threads : handle[t] = "dropped"})
Quiescent == \A t \in Threads : pc[t] = "idle"

\* ArcCell::new(Box::new(v)) on thread 1: the state after construction.
Init ==
    /\ word = ArcCellInner_new(PtrOf(1))
    /\ innerLive = TRUE
    /\ heap = [b \in Boxes |-> IF b = 1 THEN "live" ELSE "unalloc"]
    /\ pc = [t \in Threads |-> "idle"]
    /\ handle = [t \in Threads |-> IF t = 1 THEN "held" ELSE "none"]
    /\ guard = [t \in Threads |-> "none"]
    /\ current = [t \in Threads |-> Zero]
    /\ data = [t \in Threads |-> FALSE]
    /\ old_ptr = [t \in Threads |-> NullPtr]
    /\ ptr = [t \in Threads |-> NullPtr]
    /\ strong = [t \in Threads |-> Zero]
    /\ count = [t \in Threads |-> Zero]
    /\ installs = <<PtrOf(1)>>
    /\ setRets = <<>>
    /\ reclaimed = <<>>
    /\ innerFrees = 0
    /\ faults = {}

\* ---------------------------------------------------------------- clone
\* impl Clone for ArcCell: increment_strong, then a new handle, moved to the
\* next thread spawned (as the closures of big_test do).
Clone(t) ==
    /\ Running
    /\ pc[t] = "idle" /\ handle[t] = "held"
    /\ FreshThread # 0
    /\ word' = increment_strong(word)
    /\ handle' = [handle EXCEPT ![FreshThread] = "held"]
    /\ faults' = Touch
    /\ UNCHANGED <<innerLive, heap, pc, guard, locals, history>>

\* ------------------------------------------------------------------ get
\* ArcCell::get: increment_strong, then an ArcRef to the same inner.
Get(t) ==
    /\ Running
    /\ pc[t] = "idle" /\ handle[t] = "held" /\ guard[t] = "none"
    /\ NumGets < MaxGets
    /\ word' = increment_strong(word)
    /\ guard' = [guard EXCEPT ![t] = "live"]
    /\ faults' = Touch
    /\ UNCHANGED <<innerLive, heap, pc, handle, locals, history>>

\* impl Deref for ArcRef (and Display, Debug): self.inner().ptr() ...
DerefLoad(t) ==
    /\ Running
    /\ pc[t] = "idle" /\ guard[t] = "live"
    /\ ptr' = [ptr EXCEPT ![t] = ptr_of(word)]
    /\ pc' = [pc EXCEPT ![t] = "deref_read"]
    /\ faults' = Touch
    /\ UNCHANGED <<word, innerLive, heap, handle, guard, current, data,
                   old_ptr, strong, count, history>>

\* ... then the caller reads through the `&*ptr` it was given.
DerefRead(t) ==
    /\ Running
    /\ pc[t] = "deref_read"
    /\ faults' = faults \cup ReadFault(ptr[t])
    /\ ptr' = [ptr EXCEPT ![t] = NullPtr]
    /\ pc' = [pc EXCEPT ![t] = "idle"]
    /\ UNCHANGED <<word, innerLive, heap, handle, guard, current, data,
                   old_ptr, strong, count, history>>

\* An ArcRef going out of scope: the struct has no Drop impl and its fields
\* (NonNull, PhantomData) have no drop glue, so nothing else happens.
ReleaseGuard(t) ==
    /\ Running
    /\ pc[t] = "idle" /\ guard[t] = "live"
    /\ guard' = [guard EXCEPT ![t] = "released"]
    /\ UNCHANGED <<word, innerLive, heap, pc, handle, locals, history, faults>>

\* ------------------------------------------------------------------ set
\* ArcCell::set: the caller's freshly made Box, then set_ptr's first
\* `let current = self.0.load(Relaxed)`.  Until its pointer is installed the
\* Box is private to the thread; allocations are numbered in the order in
\* which they reach the word.
SetCall(t) ==
    /\ Running
    /\ pc[t] = "idle" /\ handle[t] = "held"
    /\ NumAllocated < MaxBoxes
    /\ data' = [data EXCEPT ![t] = TRUE]
    /\ current' = [current EXCEPT ![t] = word]
    /\ pc' = [pc EXCEPT ![t] = "set_cas"]
    /\ faults' = Touch
    /\ UNCHANGED <<word, innerLive, heap, handle, guard, old_ptr, ptr,
                   strong, count, history>>

\* set_ptr: compare_exchange(current, new).  Ok(value) returns the old
\* pointer; Err loops, and the loop's next load is taken in the same step.
SetCas(t) ==
    /\ Running
    /\ pc[t] = "set_cas"
    /\ faults' = Touch
    /\ IF compare_exchange_ok(word, current[t])
       THEN /\ word' = set_ptr_new(current[t], PtrOf(FreshBox))
            /\ heap' = [heap EXCEPT ![FreshBox] = "live"]
            /\ old_ptr' = [old_ptr EXCEPT ![t] = set_ptr_ret(current[t])]
            /\ installs' = Append(installs, PtrOf(FreshBox))
            /\ setRets' = Append(setRets, set_ptr_ret(current[t]))
            /\ data' = [data EXCEPT ![t] = FALSE]
            /\ current' = [current EXCEPT ![t] = Zero]
            /\ pc' = [pc EXCEPT ![t] = "set_ret"]
       ELSE /\ current' = [current EXCEPT ![t] = word]
            /\ UNCHANGED <<word, heap, old_ptr, data, installs, setRets, pc>>
    /\ UNCHANGED <<innerLive, handle, guard, ptr, strong, count, reclaimed,
                   innerFrees>>

\* ArcCell::set: Box::from_raw(old_ptr) goes to the caller, who drops it.
SetDisposeOld(t) ==
    /\ Running
    /\ pc[t] = "set_ret"
    /\ heap' = Dispose(old_ptr[t])
    /\ faults' = faults \cup DisposeFault(old_ptr[t])
    /\ old_ptr' = [old_ptr EXCEPT ![t] = NullPtr]
    /\ pc' = [pc EXCEPT ![t] = "idle"]
    /\ UNCHANGED <<word, innerLive, handle, guard, current, data, ptr,
                   strong, count, history>>

\* --------------------------------------------------------- strong_count
\* ArcCell::strong_count: one load; the caller then has the number.
StrongCount(t) ==
    /\ Running
    /\ pc[t] = "idle" /\ handle[t] = "held"
    /\ count' = [count EXCEPT ![t] = strong_count(word)]
    /\ pc' = [pc EXCEPT ![t] = "count_ret"]
    /\ faults' = Touch
    /\ UNCHANGED <<word, innerLive, heap, handle, guard, current, data,
                   old_ptr, ptr, strong, history>>

StrongCountDone(t) ==
    /\ Running
    /\ pc[t] = "count_ret"
    /\ count' = [count EXCEPT ![t] = Zero]
    /\ pc' = [pc EXCEPT ![t] = "idle"]
    /\ UNCHANGED <<word, innerLive, heap, handle, guard, current, data,
                   old_ptr, ptr, strong, history, faults>>

\* ----------------------------------------------------------------- drop
\* impl Drop for ArcCell: the handle goes out of scope; decrement_strong's
\* first `let current = self.0.load(Relaxed)`.
DropCall(t) ==
    /\ Running
    /\ pc[t] = "idle" /\ handle[t] = "held"
    /\ current' = [current EXCEPT ![t] = word]
    /\ pc' = [pc EXCEPT ![t] = "dec_cas"]
    /\ faults' = Touch
    /\ UNCHANGED <<word, innerLive, heap, handle, guard, data, old_ptr, ptr,
                   strong, count, history>>

\* decrement_strong: compare_exchange(current, new); drop returns if the
\* result is > 0.  Err loops, and the next load is taken in the same step.
DecCas(t) ==
    /\ Running
    /\ pc[t] = "dec_cas"
    /\ faults' = Touch
    /\ IF compare_exchange_ok(word, current[t])
       THEN /\ word' = decrement_strong_new(current[t])
            /\ handle' = [handle EXCEPT ![t] = "dropped"]
            /\ current' = [current EXCEPT ![t] = Zero]
            /\ IF drop_returns_early(decrement_strong_ret(current[t]))
               THEN /\ pc' = [pc EXCEPT ![t] = "idle"]
                    /\ strong' = strong
               ELSE /\ pc' = [pc EXCEPT ![t] = "null_load"]
                    /\ strong' = [strong EXCEPT
                                    ![t] = decrement_strong_value(current[t])]
       ELSE /\ current' = [current EXCEPT ![t] = word]
            /\ UNCHANGED <<word, handle, strong, pc>>
    /\ UNCHANGED <<innerLive, heap, guard, data, old_ptr, ptr, count,
                   history>>

\* set_ptr_null: let current = self.0.load(Relaxed)
NullLoad(t) ==
    /\ Running
    /\ pc[t] = "null_load"
    /\ current' = [current EXCEPT ![t] = word]
    /\ pc' = [pc EXCEPT ![t] = "null_cas"]
    /\ faults' = Touch
    /\ UNCHANGED <<word, innerLive, heap, handle, guard, data, old_ptr, ptr,
                   strong, count, history>>

\* set_ptr_null: compare_exchange(current, new); Ok(value) yields the pointer
NullCas(t) ==
    /\ Running
    /\ pc[t] = "null_cas"
    /\ faults' = Touch
    /\ IF compare_exchange_ok(word, current[t])
       THEN /\ word' = set_ptr_null_new(current[t])
            /\ ptr' = [ptr EXCEPT ![t] = set_ptr_null_ptr(current[t])]
            /\ current' = [current EXCEPT ![t] = Zero]
            /\ pc' = [pc EXCEPT ![t] = "drop_box"]
       ELSE /\ current' = [current EXCEPT ![t] = word]
            /\ UNCHANGED <<word, ptr, pc>>
    /\ UNCHANGED <<innerLive, heap, handle, guard, data, old_ptr, strong,
                   count, history>>

\* drop: drop(unsafe { Box::from_raw(ptr) })
DropBox(t) ==
    /\ Running
    /\ pc[t] = "drop_box"
    /\ heap' = Dispose(ptr[t])
    /\ faults' = faults \cup DisposeFault(ptr[t])
    /\ reclaimed' = Append(reclaimed, ptr[t])
    /\ ptr' = [ptr EXCEPT ![t] = NullPtr]
    /\ pc' = [pc EXCEPT ![t] = "free_inner"]
    /\ UNCHANGED <<word, innerLive, handle, guard, current, data, old_ptr,
                   strong, count, installs, setRets, innerFrees>>

\* drop: Box::from_raw(self.ptr.as_ptr()) frees the ArcCellInner
FreeInner(t) ==
    /\ Running
    /\ pc[t] = "free_inner"
    /\ innerLive' = FALSE
    /\ innerFrees' = innerFrees + 1
    /\ faults' = IF innerLive THEN faults
                 ELSE faults \cup {"inner_double_free"}
    /\ strong' = [strong EXCEPT ![t] = Zero]
    /\ pc' = [pc EXCEPT ![t] = "idle"]
    /\ UNCHANGED <<word, heap, handle, guard, current, data, old_ptr, ptr,
                   count, installs, setRets, reclaimed>>

\* ---------------------------------------------------------- specification
Next ==
    \E t \in Threads :
        \/ Clone(t)
        \/ Get(t)
        \/ DerefLoad(t)
        \/ DerefRead(t)
        \/ ReleaseGuard(t)
        \/ SetCall(t)
        \/ SetCas(t)
        \/ SetDisposeOld(t)
        \/ DropCall(t)
        \/ DecCas(t)
        \/ NullLoad(t)
        \/ NullCas(t)
        \/ DropBox(t)
        \/ FreeInner(t)

Spec == Init /\ [][Next]_vars

\* The same program with strong_count() among its operations.
NextCount ==
    \E t \in Threads :
        \/ Clone(t)
        \/ Get(t)
        \/ DerefLoad(t)
        \/ DerefRead(t)
        \/ ReleaseGuard(t)
        \/ SetCall(t)
        \/ SetCas(t)
        \/ SetDisposeOld(t)
        \/ StrongCount(t)
        \/ StrongCountDone(t)
        \/ DropCall(t)
        \/ DecCas(t)
        \/ NullLoad(t)
        \/ NullCas(t)
        \/ DropBox(t)
        \/ FreeInner(t)

SpecCount == Init /\ [][NextCount]_vars

\* The operations of a handle alone (clone, get, set, drop and the release of
\* a guard), each thread scheduled weakly fairly while it is inside one.
Continue(t) ==
    \/ SetCas(t)
    \/ SetDisposeOld(t)
    \/ DecCas(t)
    \/ NullLoad(t)
    \/ NullCas(t)
    \/ DropBox(t)
    \/ FreeInner(t)

NextOps ==
    \E t \in Threads :
        \/ Clone(t)
        \/ Get(t)
        \/ SetCall(t)
        \/ DropCall(t)
        \/ Continue(t)

SpecLive == Init /\ [][NextOps]_vars /\ WF_vars(\E t \in Threads : Continue(t))

\* The cell after 2^32 calls of get whose guards were discarded: each call is
\* one fetch_add of ONE_STRONG, so the word is the constructor's plus
\* 2^32 * ONE_STRONG.  The handle of thread 1 is still the only one.
Pow32 == [i \in Limbs |-> IF i = 3 THEN 1 ELSE 0]

InitWide ==
    /\ \E before \in {Zero, Pow32} :
           word = WrappingAdd(ArcCellInner_new(PtrOf(1)), Shl64(before))
    /\ innerLive = TRUE
    /\ heap = [b \in Boxes |-> IF b = 1 THEN "live" ELSE "unalloc"]
    /\ pc = [t \in Threads |-> "idle"]
    /\ handle = [t \in Threads |-> IF t = 1 THEN "held" ELSE "none"]
    /\ guard = [t \in Threads |-> "none"]
    /\ current = [t \in Threads |-> Zero]
    /\ data = [t \in Threads |-> FALSE]
    /\ old_ptr = [t \in Threads |-> NullPtr]
    /\ ptr = [t \in Threads |-> NullPtr]
    /\ strong = [t \in Threads |-> Zero]
    /\ count = [t \in Threads |-> Zero]
    /\ installs = <<PtrOf(1)>>
    /\ setRets = <<>>
    /\ reclaimed = <<>>
    /\ innerFrees = 0
    /\ faults = {}

SpecWide == InitWide /\ [][Next]_vars

\* ------------------------------------------------------------- properties
ReclaimPcs == {"null_load", "null_cas", "drop_box", "free_inner"}
Reclaiming(t) == pc[t] \in ReclaimPcs
ReclaimBegun == (\E t \in Threads : Reclaiming(t)) \/ reclaimed # <<>>
                \/ ~innerLive
AllHandlesDropped == \A t \in Threads : handle[t] # "held"
Last(q) == q[Len(q)]

\* C1: with no get issued, reclamation (the payload's disposal and the free
\* of the inner) happens once in total, is run by the drop whose decrement
\* took the full handle count from 1 to 0, and never begins while a handle
\* is outstanding.
C1_ReclaimOnceAtLastDrop ==
    NumGets = 0 =>
        /\ ReclaimBegun => NumHandles = 0
        /\ \A t \in Threads : Reclaiming(t) => strong[t] = Zero
        /\ Cardinality({t \in Threads : Reclaiming(t)}) + innerFrees <= 1
        /\ Len(reclaimed) <= 1
        /\ (AllHandlesDropped /\ Quiescent) =>
               (innerFrees = 1 /\ Len(reclaimed) = 1 /\ ~innerLive)

C1_Witness ==
    /\ NumGets = 0
    /\ NumClones = NumThreads - 1
    /\ NumClones >= 1
    /\ AllHandlesDropped /\ Quiescent
    /\ innerFrees = 1

\* C2: a strong_count() called at a quiescent point returns the number of
\* outstanding handles.
C2_StrongCountIsHandleCount ==
    [][\A t \in Threads :
          (Quiescent /\ pc'[t] = "count_ret") => count'[t] = Lit(NumHandles)]_vars

\* C3: on a single handle and with no concurrency, each set returns the
\* value installed before it (the constructor's for the first), and the
\* drop of the handle disposes the value of the last set, once, and no other.
C3_SequentialSets ==
    (NumClones = 0 /\ NumGets = 0) =>
        /\ \A i \in 1..Len(setRets) : setRets[i] = installs[i]
        /\ faults = {}
        /\ reclaimed # <<>> => reclaimed = <<Last(installs)>>
        /\ (handle[1] = "dropped" /\ pc[1] = "idle") =>
               /\ reclaimed = <<Last(installs)>>
               /\ \A b \in Boxes : heap[b] # "live"

C3_Witness ==
    /\ NumClones = 0 /\ NumGets = 0
    /\ Len(setRets) = 3
    /\ setRets = <<PtrOf(1), PtrOf(2), PtrOf(3)>>
    /\ handle[1] = "dropped" /\ pc[1] = "idle"
    /\ reclaimed = <<PtrOf(4)>>

\* C4: the pointer a reader has loaded through its guard is non-null and is
\* one that the constructor or a set whose CAS succeeded installed.
C4_ReaderSeesInstalled ==
    \A t \in Threads :
        pc[t] = "deref_read" =>
            /\ ptr[t] # NullPtr
            /\ \E i \in 1..Len(installs) : installs[i] = ptr[t]

C4_Witness ==
    \E t, u \in Threads :
        /\ pc[t] = "deref_read"
        /\ Len(installs) >= 2
        /\ ptr[t] = installs[2]
        /\ pc[u] = "set_cas"

\* C5: a reader never reads, through a live guard, a payload that has been
\* disposed.
C5_ReaderNeverReadsFreed == "use_after_free" \notin faults

\* C6: releasing a guard decrements the handle count by one.
C6_ReleaseDecrements ==
    [][\A t \in Threads :
          (guard[t] = "live" /\ guard'[t] = "released") =>
              StrongOf(word') = WrappingSub(StrongOf(word), Lit(1))]_vars

\* C7: once every handle and every guard has been dropped, the cell is
\* freed: the last stored value is disposed and the inner is freed.
C7_AllDroppedIsFreed ==
    (AllHandlesDropped /\ Quiescent /\ \A t \in Threads : guard[t] # "live") =>
        (~innerLive /\ reclaimed = <<Last(installs)>>)

C9_NoDoubleFree ==
    /\ faults \cap {"double_free", "wild_free", "null_free",
                    "inner_double_free"} = {}
    /\ innerFrees <= 1
    /\ \A i, j \in 1..Len(setRets) : setRets[i] = setRets[j] => i = j
    /\ \A i \in 1..Len(reclaimed), j \in 1..Len(setRets) :
           reclaimed[i] # setRets[j]

C9_Witness ==
    /\ NumClones >= 1
    /\ Len(setRets) >= 2
    /\ \A b \in Boxes : PtrOf(b) \in {setRets[i] : i \in 1..Len(setRets)}
                          => heap[b] = "freed"
    /\ Len(reclaimed) = 1
    /\ innerFrees = 1

\* C10: while a guard obtained by get is outstanding no reclamation has begun:
\* the inner is not freed and the word holds a non-null pointer to a payload
\* that is not disposed, also once every owning handle is dropped.
C10_NoReclaimUnderGuard ==
    (\E t \in Threads : guard[t] = "live") =>
        /\ ~ReclaimBegun
        /\ ptr_of(word) # NullPtr
        /\ BoxAt(ptr_of(word)) # 0
        /\ heap[BoxAt(ptr_of(word))] = "live"

C10_Witness ==
    /\ \E t \in Threads : guard[t] = "live"
    /\ AllHandlesDropped /\ Quiescent
    /\ innerLive

\* C11: every invocation of clone, get, set or drop terminates under weakly
\* fair scheduling; a thread inside an operation can always take a step of
\* its own (no thread blocks another, no deadlock); and a CAS loop goes round
\* again only when the word differs from the value the thread loaded, which
\* only a successful update by another thread brings about.
CasPcs == {"set_cas", "dec_cas", "null_cas"}
C11_LockFree ==
    /\ <>[](\A t \in Threads : pc[t] = "idle")
    /\ [](\A t \in Threads : pc[t] # "idle" => ENABLED <<Continue(t)>>_vars)
    /\ [][\A t \in Threads :
            /\ (pc[t] \in CasPcs /\ pc'[t] = pc[t] /\ current'[t] # current[t])
                  => (current[t] # word /\ current'[t] = word)
            /\ (pc[t] \in CasPcs /\ current[t] = word /\ word' # word)
                  => (pc'[t] # pc[t]
                      \/ (current'[t] = current[t] /\
                          \E u \in Threads \ {t} :
                              \/ handle'[u] # handle[u]
                              \/ guard'[u] # guard[u]
                              \/ pc'[u] # pc[u]))]_vars

C11_Witness ==
    \E t, u \in Threads :
        /\ pc[t] = "set_cas" /\ current[t] # word
        /\ pc[u] = "dec_cas" /\ current[u] = word


\* C12: a drop goes on to reclaim exactly when the full 64-bit count left by
\* its decrement is zero; a count that is a non-zero multiple of 2^32 must not
\* start reclamation.
C12_ReclaimIffCountZero ==
    [][\A t \in Threads :
          (pc[t] = "dec_cas" /\ handle[t] = "held" /\ handle'[t] = "dropped")
              => ((pc'[t] = "null_load") <=> (StrongOf(word') = Zero))]_vars

\* C13: two dereferences of the same live guard yield the same value, even
\* when a set completes between them.  ptr[t] is what the dereference thread t
\* is in the middle of has yielded, and ptr_of(word) is what a dereference of
\* the same guard yields from this state on.
C13_DerefStable ==
    \A t \in Threads :
        (pc[t] = "deref_read" /\ guard[t] = "live") => ptr_of(word) = ptr[t]

\* C14: the inner moves forward only, Live (count above 0) to Reclaiming
\* (count 0, inner still allocated) to Freed: a count of 0 is never raised
\* again, a freed inner stays freed, and no step reads or writes the word of a
\* freed inner.
Phase == IF ~innerLive THEN 3 ELSE IF StrongOf(word) = Zero THEN 2 ELSE 1

C14_ForwardOnly ==
    [][/\ Phase' >= Phase
       /\ Phase' <= Phase + 1
       /\ StrongOf(word) = Zero => StrongOf(word') = Zero
       /\ ~innerLive => (~innerLive' /\ word' = word)
       /\ "inner_use_after_free" \notin faults']_vars

C14_Witness ==
    /\ Phase = 3
    /\ NumClones >= 1
    /\ Len(installs) >= 2
    /\ Quiescent

\* C15: reclamation follows the decrement that took the count from 1 to 0 and
\* goes in a fixed order: the pointer bits are cleared by a CAS that yields the
\* pointer last stored, then the value at that pointer is disposed, then the
\* inner is freed; the value disposed is the one the last successful set
\* installed (the constructor's when there was none).
LastLive == BoxAt(Last(installs)) # 0 /\ heap[BoxAt(Last(installs))] = "live"

C15_ReclaimOrder ==
    /\ \A t \in Threads :
          /\ pc[t] \in {"null_load", "null_cas"} =>
                /\ strong[t] = Zero /\ StrongOf(word) = Zero
                /\ ptr_of(word) = Last(installs)
                /\ reclaimed = <<>> /\ LastLive /\ innerLive
          /\ pc[t] = "drop_box" =>
                /\ ptr_of(word) = NullPtr
                /\ ptr[t] = Last(installs)
                /\ reclaimed = <<>> /\ LastLive /\ innerLive
          /\ pc[t] = "free_inner" =>
                /\ ptr_of(word) = NullPtr
                /\ reclaimed = <<Last(installs)>> /\ ~LastLive /\ innerLive
    /\ ~innerLive =>
          /\ ptr_of(word) = NullPtr
          /\ reclaimed = <<Last(installs)>> /\ ~LastLive
    /\ faults \cap {"null_free", "wild_free", "double_free"} = {}

C15_Witness ==
    /\ \E t \in Threads : pc[t] = "free_inner"
    /\ Len(installs) >= 3
    /\ NumClones >= 1

\* C16: while the inner is not freed, the pointer bits of the word are zero
\* only if the count is zero and reclamation is under way; whenever the count
\* is above zero the pointer bits are the address of a value that is
\* allocated and not disposed.
C16_PtrNullOnlyReclaiming ==
    innerLive =>
        /\ ptr_of(word) = NullPtr =>
              /\ StrongOf(word) = Zero
              /\ \E t \in Threads : pc[t] \in {"drop_box", "free_inner"}
        /\ StrongOf(word) # Zero =>
              /\ ptr_of(word) # NullPtr
              /\ BoxAt(ptr_of(word)) # 0
              /\ heap[BoxAt(ptr_of(word))] = "live"

C16_Witness ==
    /\ innerLive
    /\ ptr_of(word) = NullPtr
    /\ StrongOf(word) = Zero
    /\ Len(installs) >= 2
    /\ NumDrops >= 2

\* C17: with every handle dropped at most once and unused after its drop, the
\* count is at least 1 whenever the CAS of a decrement succeeds, so that no
\* decrement takes the count below zero (the subtraction never wraps).
DecrementSucceeds(t) ==
    pc[t] = "dec_cas" /\ handle[t] = "held" /\ handle'[t] = "dropped"

C17_NoDecrementBelowZero ==
    [][\A t \in Threads :
          DecrementSucceeds(t) =>
              /\ StrongOf(word) # Zero
              /\ StrongOf(current[t]) # Zero
              /\ StrongOf(word) = WrappingAdd(StrongOf(word'), Lit(1))
              /\ StrongOf(word') # BitAnd(BitNot(Zero), Shr64(MASK_STRONG))]_vars

C17_Witness ==
    /\ NumDrops = NumThreads
    /\ NumGets >= 1
    /\ Len(installs) >= 2
    /\ Quiescent

\* C18: each operation changes only its own half of the word.  new yields
\* count 1 and the value's address; clone and get add exactly 1 to the count
\* and keep the pointer bits; the decrement of drop takes exactly 1 from the
\* count and keeps the pointer bits; set and set_ptr_null replace the pointer
\* bits only, the count bits staying as they were at the successful CAS; and
\* no other step changes the word.
Increments == NumClones' > NumClones \/ NumGets' > NumGets
SetSucceeds(t) == pc[t] = "set_cas" /\ pc'[t] = "set_ret"
NullSucceeds(t) == pc[t] = "null_cas" /\ pc'[t] = "drop_box"

C18_FrameEffects ==
    /\ StrongOf(word) = Lit(1) /\ ptr_of(word) = PtrOf(1)
    /\ [][/\ Increments =>
                /\ StrongOf(word') = WrappingAdd(StrongOf(word), Lit(1))
                /\ StrongOf(word') # Zero
                /\ ptr_of(word') = ptr_of(word)
          /\ \A t \in Threads :
                /\ DecrementSucceeds(t) =>
                      /\ StrongOf(word') = WrappingSub(StrongOf(word), Lit(1))
                      /\ ptr_of(word') = ptr_of(word)
                /\ SetSucceeds(t) =>
                      /\ StrongOf(word') = StrongOf(current[t])
                      /\ StrongOf(word') = StrongOf(word)
                      /\ ptr_of(word') = Last(installs')
                      /\ ptr_of(word') # ptr_of(word)
                /\ NullSucceeds(t) =>
                      /\ StrongOf(word') = StrongOf(current[t])
                      /\ StrongOf(word') = StrongOf(word)
                      /\ ptr_of(word') = NullPtr
          /\ word' # word =>
                \/ Increments
                \/ \E t \in Threads :
                      DecrementSucceeds(t) \/ SetSucceeds(t) \/ NullSucceeds(t)
          /\ word' = BitOr(Shl64(StrongOf(word')), ptr_of(word'))]_vars

C18_Witness ==
    /\ \E t \in Threads : pc[t] = "drop_box"
    /\ NumClones >= 1
    /\ NumDrops >= 2
    /\ Len(installs) >= 2

=============================================================================
